---- MODULE Spec2Model ----
(***************************************************************************)
(* A model of formula1-predictor: the prediction engine                    *)
(* (predictor.generate_prediction), its two lookups (predictor.get_next_gp *)
(* and predictor.get_driver_standings) and the command line flow           *)
(* (cli.main, cli.print_prediction).                                       *)
(*                                                                         *)
(* Encoding of Python values:                                              *)
(*   - a str is a TLA+ string; where the code looks inside a string        *)
(*     (substring tests, lower()) its characters are taken from CharTable; *)
(*   - None is the string None, a pandas missing value (NaN) is the string *)
(*     NaN; neither is the text of any str of the model;                   *)
(*   - a cell of the Position column is a record [kind, val]: a number,    *)
(*     a missing value, or a value int() cannot convert;                   *)
(*   - a DataFrame is [kind, cols, rows], kind "none" standing for None;   *)
(*   - an event is a record with kind "none" (None), "dict" or "obj"       *)
(*     (a pandas Series / any object with attributes);                     *)
(*   - an exception raised by a call is an outcome [raised |-> its type].  *)
(***************************************************************************)
EXTENDS Integers, Sequences, FiniteSets, TLC

VARIABLES
  pc,          \* position in the flow
  gp_name,     \* cli.main: the GP_NAME argument
  schedule,    \* the season's schedule as fastf1.get_event_schedule gives it
  now,         \* the clock (pd.to_datetime('now'))
  event_info,  \* cli.main local; generate_prediction's second argument
  standings,   \* cli.main local; generate_prediction's first argument
  error,       \* cli.main local
  prediction,  \* outcome of generate_prediction: [raised, value]
  console,     \* what has been printed, in order
  calls,       \* the predictor/cli functions invoked so far, in order
  ext          \* what the external library answered during the calls

vars == <<pc, gp_name, schedule, now, event_info, standings, error,
          prediction, console, calls, ext>>

None == "<None>"
NaN == "<NaN>"

----------------------------------------------------------------------------
(* Bounds of the model. *)

\* Largest number of rows of a results table passed to generate_prediction.
MaxRows == 4
\* Largest number of events of a schedule.
MaxEvents == 3
\* Event dates are 1..MaxDate; the clock ranges over 0..MaxDate+1.
MaxDate == 3

----------------------------------------------------------------------------
(* Strings. *)

CIRCUIT_TIDBITS ==
  << [key |-> "Bahrain",
      text |-> "Known for its abrasive surface, tire degradation is always a key factor."],
     [key |-> "Jeddah",
      text |-> "A high-speed street circuit. Expect close walls and high drama."],
     [key |-> "Melbourne",
      text |-> "A fan favorite to start the season. It's a tricky, bumpy track."],
     [key |-> "Imola",
      text |-> "An old-school, unforgiving track. Mistakes are punished harshly."],
     [key |-> "Miami",
      text |-> "A modern track with a mix of high-speed straights and technical sections."],
     [key |-> "Monaco",
      text |-> "The crown jewel. Overtaking is nearly impossible, so qualifying is everything."],
     [key |-> "Baku",
      text |-> "Chaos is the name of the game here with its long straight and tight castle section."],
     [key |-> "Montréal",
      text |-> "The 'Wall of Champions' awaits. A track that rewards aggressive driving."],
     [key |-> "Catalunya",
      text |-> "A circuit teams know inside-out. Car performance is truly tested here."],
     [key |-> "Spielberg",
      text |-> "A short, fast lap with big elevation changes. Expect close racing."],
     [key |-> "Silverstone",
      text |-> "The historic home of F1. High-speed corners like Maggots and Becketts are legendary."],
     [key |-> "Budapest",
      text |-> "Often called 'Monaco without the walls'. It's tight, twisty, and hot."],
     [key |-> "Spa-Francorchamps",
      text |-> "A true driver's circuit. Eau Rouge and Raidillon are iconic."],
     [key |-> "Zandvoort",
      text |-> "A banked, flowing circuit that is a huge challenge for drivers."],
     [key |-> "Monza",
      text |-> "The 'Temple of Speed'. It's all about low drag and high straight-line speed."],
     [key |-> "Singapore",
      text |-> "A grueling, humid night race on a bumpy street circuit."],
     [key |-> "Suzuka",
      text |-> "A legendary figure-eight track loved by all drivers."],
     [key |-> "Austin",
      text |-> "A modern classic with a bit of everything, from fast sweeps to heavy braking."],
     [key |-> "Mexico City",
      text |-> "The high altitude saps engine power and tests cooling systems to their limit."],
     [key |-> "São Paulo",
      text |-> "Famous for its unpredictable weather and passionate fans. Always exciting."],
     [key |-> "Las Vegas",
      text |-> "A spectacular night race down the famous Strip. It's all about the show."],
     [key |-> "Lusail",
      text |-> "A fast, flowing track originally built for MotoGP, making it tough on drivers' necks."],
     [key |-> "Abu Dhabi",
      text |-> "The season finale. A modern circuit that often hosts title deciders under the lights."] >>

CharTable ==
  ("Bahrain" :> <<"B", "a", "h", "r", "a", "i", "n">>) @@
  ("Jeddah" :> <<"J", "e", "d", "d", "a", "h">>) @@
  ("Melbourne" :> <<"M", "e", "l", "b", "o", "u", "r", "n", "e">>) @@
  ("Imola" :> <<"I", "m", "o", "l", "a">>) @@
  ("Miami" :> <<"M", "i", "a", "m", "i">>) @@
  ("Monaco" :> <<"M", "o", "n", "a", "c", "o">>) @@
  ("Baku" :> <<"B", "a", "k", "u">>) @@
  ("Montréal" :> <<"M", "o", "n", "t", "r", "é", "a", "l">>) @@
  ("Catalunya" :> <<"C", "a", "t", "a", "l", "u", "n", "y", "a">>) @@
  ("Spielberg" :> <<"S", "p", "i", "e", "l", "b", "e", "r", "g">>) @@
  ("Silverstone" :> <<"S", "i", "l", "v", "e", "r", "s", "t", "o", "n", "e">>) @@
  ("Budapest" :> <<"B", "u", "d", "a", "p", "e", "s", "t">>) @@
  ("Spa-Francorchamps" :> <<"S", "p", "a", "-", "F", "r", "a", "n", "c", "o", "r", "c", "h", "a", "m", "p", "s">>) @@
  ("Zandvoort" :> <<"Z", "a", "n", "d", "v", "o", "o", "r", "t">>) @@
  ("Monza" :> <<"M", "o", "n", "z", "a">>) @@
  ("Singapore" :> <<"S", "i", "n", "g", "a", "p", "o", "r", "e">>) @@
  ("Suzuka" :> <<"S", "u", "z", "u", "k", "a">>) @@
  ("Austin" :> <<"A", "u", "s", "t", "i", "n">>) @@
  ("Mexico City" :> <<"M", "e", "x", "i", "c", "o", " ", "C", "i", "t", "y">>) @@
  ("São Paulo" :> <<"S", "ã", "o", " ", "P", "a", "u", "l", "o">>) @@
  ("Las Vegas" :> <<"L", "a", "s", " ", "V", "e", "g", "a", "s">>) @@
  ("Lusail" :> <<"L", "u", "s", "a", "i", "l">>) @@
  ("Abu Dhabi" :> <<"A", "b", "u", " ", "D", "h", "a", "b", "i">>) @@
  ("Monaco Grand Prix" :> <<"M", "o", "n", "a", "c", "o", " ", "G", "r", "a", "n", "d", " ", "P", "r", "i", "x">>) @@
  ("MONACO GRAND PRIX" :> <<"M", "O", "N", "A", "C", "O", " ", "G", "R", "A", "N", "D", " ", "P", "R", "I", "X">>) @@
  ("Obscuretown Grand Prix" :> <<"O", "b", "s", "c", "u", "r", "e", "t", "o", "w", "n", " ", "G", "r", "a", "n", "d", " ", "P", "r", "i", "x">>) @@
  ("Monaco-Miami Grand Prix" :> <<"M", "o", "n", "a", "c", "o", "-", "M", "i", "a", "m", "i", " ", "G", "r", "a", "n", "d", " ", "P", "r", "i", "x">>) @@
  ("SÃO PAULO GRAND PRIX" :> <<"S", "Ã", "O", " ", "P", "A", "U", "L", "O", " ", "G", "R", "A", "N", "D", " ", "P", "R", "I", "X">>) @@
  ("Italian Grand Prix" :> <<"I", "t", "a", "l", "i", "a", "n", " ", "G", "r", "a", "n", "d", " ", "P", "r", "i", "x">>) @@
  ("Miami Grand Prix" :> <<"M", "i", "a", "m", "i", " ", "G", "r", "a", "n", "d", " ", "P", "r", "i", "x">>) @@
  ("Indianapolis 500" :> <<"I", "n", "d", "i", "a", "n", "a", "p", "o", "l", "i", "s", " ", "5", "0", "0">>) @@
  ("" :> <<>>) @@
  ("Grand Prix" :> <<"G", "r", "a", "n", "d", " ", "P", "r", "i", "x">>)

Chars(s) == CharTable[s]

UpperCase == <<"A","B","C","D","E","F","G","H","I","J","K","L","M","N","O","P",
               "Q","R","S","T","U","V","W","X","Y","Z","É","Ã">>
LowerCase == <<"a","b","c","d","e","f","g","h","i","j","k","l","m","n","o","p",
               "q","r","s","t","u","v","w","x","y","z","é","ã">>

\* str.lower() on one character.
LowerChar(c) ==
  IF \E i \in 1..Len(UpperCase) : UpperCase[i] = c
  THEN LowerCase[CHOOSE i \in 1..Len(UpperCase) : UpperCase[i] = c]
  ELSE c

\* str.lower() on the characters of a string.
Lower(cs) == [i \in 1..Len(cs) |-> LowerChar(cs[i])]

\* Python's `needle in hay` on two character sequences.
Contains(hay, needle) ==
  \E k \in 0..(Len(hay) - Len(needle)) :
    \A j \in 1..Len(needle) : hay[k + j] = needle[j]

----------------------------------------------------------------------------
(* predictor.generate_prediction *)

\* A cell of the Position column: a number, a missing value (pd.isna is
\* true of it), or a value that is not missing and that int() rejects
\* with ValueError (such as the text "DNF").
Num(n) == [kind |-> "num", val |-> n]
Missing == [kind |-> "nan", val |-> 0]
Unparseable == [kind |-> "str", val |-> 0]

\* pd.isna(driver['Position'])
IsNa(cell) == cell.kind = "nan"

\* str(x), and {x} in an f-string
Str(x) == IF x = NaN THEN "nan" ELSE IF x = None THEN "None" ELSE x

\* Python truthiness of an optional str
Truthy(s) == s # None /\ s # ""

NoDataFrame == [kind |-> "none", cols |-> {}, rows |-> <<>>]

\* None where a driver dict is expected; no driver dict has row 0.
NoDriver == [name |-> None, position |-> 0, constructor |-> None, row |-> 0]

NoEvent ==
  [kind |-> "none", EventName |-> None, Location |-> None,
   EventDate |-> 0, RoundNumber |-> 0]

Returned(v) == [raised |-> None, value |-> v]
Raised(exc, at) == [raised |-> exc, value |-> [at |-> at]]

\* Lines 114-117 with the emptiness test dropped.
StandingsAbsent_OnlyNone(standings_df) == standings_df.kind = "none"

\* standings_df is None or standings_df.empty
StandingsAbsent(standings_df) ==
  standings_df.kind = "none" \/ Len(standings_df.rows) = 0

\* The name of one row; `'X' in driver` asks whether the row has a field
\* (the table a column) X, whatever its value.
DriverName(cols, driver) ==
  IF "GivenName" \in cols /\ "FamilyName" \in cols
  THEN Str(driver.GivenName) \o " " \o Str(driver.FamilyName)
  ELSE IF "Driver" \in cols
       THEN driver.Driver
       ELSE Str(IF "Abbreviation" \in cols THEN driver.Abbreviation
                                           ELSE "Unknown")

\* The loop over standings_df.iterrows() from row i on, drivers holding
\* the dicts appended so far. The field row of a driver dict is the index of
\* the row it was built from: it stands for the dict's identity and is read
\* by no operation of the program.
RECURSIVE BuildDrivers(_, _, _)
BuildDrivers(standings_df, i, drivers) ==
  IF i > Len(standings_df.rows)
  THEN [raised |-> None, drivers |-> drivers]
  ELSE LET driver == standings_df.rows[i]
       IN IF IsNa(driver.Position)
          THEN BuildDrivers(standings_df, i + 1, drivers)
          ELSE IF driver.Position.kind # "num"
               THEN [raised |-> "ValueError", drivers |-> drivers]
               ELSE BuildDrivers(standings_df, i + 1,
                      Append(drivers,
                             [name |-> DriverName(standings_df.cols, driver),
                              position |-> driver.Position.val,
                              constructor |-> driver.TeamName,
                              row |-> i]))

top_contenders(drivers) == SelectSeq(drivers, LAMBDA d : d.position <= 5)

\* Sampling every top contender.
num_to_sample_All(top) == Len(top)

num_to_sample(top) == IF 3 <= Len(top) THEN 3 ELSE Len(top)

\* The mid pool opened one position too early.
midfield_strong_From3(drivers) ==
  SelectSeq(drivers, LAMBDA d : 3 <= d.position /\ d.position <= 8)

midfield_strong(drivers) ==
  SelectSeq(drivers, LAMBDA d : 4 <= d.position /\ d.position <= 8)

midfield_pack(drivers) ==
  SelectSeq(drivers, LAMBDA d : 9 <= d.position /\ d.position <= 15)

\* random.sample(population, k): every sequence of k elements taken at
\* distinct indices; ValueError when k exceeds the population.
RandomSample(population, k) ==
  IF k > Len(population)
  THEN {}
  ELSE { [j \in 1..k |-> population[f[j]]] :
           f \in { g \in [1..k -> 1..Len(population)] :
                     \A a, b \in 1..k : a # b => g[a] # g[b] } }

\* random.choice(seq) if seq else None
RandomChoiceOrNone(seq) ==
  IF Len(seq) = 0 THEN {NoDriver} ELSE { seq[i] : i \in 1..Len(seq) }

DefaultTidbit == "A circuit that always brings excitement!"

\* The test of the tidbit loop without the two lower() calls.
KeyMatches_CaseSensitive(key, event_name) ==
  Contains(Chars(event_name), Chars(key))

\* key.lower() in event_name.lower()
KeyMatches(key, event_name) ==
  Contains(Lower(Chars(event_name)), Lower(Chars(key)))

\* for key in CIRCUIT_TIDBITS: ... break, from the i-th key on (a dict
\* iterates in insertion order).
RECURSIVE TidbitLoop(_, _)
TidbitLoop(event_name, i) ==
  IF i > Len(CIRCUIT_TIDBITS)
  THEN DefaultTidbit
  ELSE IF KeyMatches(CIRCUIT_TIDBITS[i].key, event_name)
       THEN CIRCUIT_TIDBITS[i].text
       ELSE TidbitLoop(event_name, i + 1)

\* event_info.get(field) for a dict, getattr(event_info, field, None)
\* otherwise: both give the field, or None when it is absent.
EventField(ev, field) ==
  IF field = "EventName" THEN ev.EventName ELSE ev.Location

\* Lines 149-164: the event's name and location, and the tidbit.
ResolveEvent(ev) ==
  LET event_name == IF ev.kind # "none" THEN EventField(ev, "EventName")
                                        ELSE None
      event_location == IF ev.kind # "none" THEN EventField(ev, "Location")
                                            ELSE None
  IN [event_name |-> event_name,
      event_location |-> event_location,
      tidbit |-> IF ev.kind # "none" /\ Truthy(event_name)
                 THEN TidbitLoop(event_name, 1)
                 ELSE DefaultTidbit]

\* Every outcome of generate_prediction(standings_df, ev): what it
\* returns for each draw of the random module, or the exception it raises.
generate_prediction(standings_df, ev) ==
  IF StandingsAbsent(standings_df)
  THEN { Returned([error |->
             "Cannot generate prediction without driver standings."]) }
  ELSE
    LET built == BuildDrivers(standings_df, 1, <<>>)
        drivers == built.drivers
        top == top_contenders(drivers)
        k == num_to_sample(top)
        e == ResolveEvent(ev)
    IN IF built.raised # None
       THEN { Raised(built.raised, "int(driver['Position'])") }
       ELSE IF k > Len(top)
       THEN { Raised("ValueError", "random.sample") }
       ELSE
         { Returned(
             [event_name |-> IF Truthy(e.event_name) THEN e.event_name
                                                     ELSE "Unknown Event",
              location |-> IF Truthy(e.event_location) THEN e.event_location
                                                       ELSE "Unknown Location",
              tidbit |-> e.tidbit,
              podium_favorites |-> podium_favorites,
              dark_horse |-> dark_horse,
              potential_surprise |-> potential_surprise]) :
             podium_favorites \in RandomSample(top, k),
             dark_horse \in RandomChoiceOrNone(midfield_strong(drivers)),
             potential_surprise \in RandomChoiceOrNone(midfield_pack(drivers)) }

----------------------------------------------------------------------------
(* predictor.get_next_gp and predictor.get_driver_standings *)

\* str(e) of an exception the external library raises
ExcText == "connection failed"

\* The filter of line 64 with a strict comparison.
future_events_Strict(sched, t) ==
  SelectSeq(sched, LAMBDA e : e.EventDate > t)

\* schedule[schedule['EventDate'] >= now]
future_events(sched, t) ==
  SelectSeq(sched, LAMBDA e : e.EventDate >= t)

\* What schedule.get_event_by_name(query) may answer: an event of the
\* schedule (the library's best match) or None.
EventByName(sched) == { sched[i] : i \in 1..Len(sched) } \cup {NoEvent}

\* Every outcome of get_next_gp(gp_name_query) at time t with the schedule
\* sched on the provider's side: the pair (event, error) it returns, with
\* what the library answered (fetched: the schedule arrived; lookup: the
\* answer of get_event_by_name, when asked).
get_next_gp(gp_name_query, sched, t) ==
  LET failed ==
        [event |-> NoEvent,
         error |-> "Network error getting race schedule: " \o ExcText,
         fetched |-> FALSE, lookup |-> NoEvent]
      future == future_events(sched, t)
  IN {failed} \cup
     ( IF Len(future) = 0
       THEN { [event |-> NoEvent,
               error |-> "No upcoming races found for the rest of the season.",
               fetched |-> TRUE, lookup |-> NoEvent] }
       ELSE IF Truthy(gp_name_query)
       THEN { IF event.kind # "none" /\ event.EventDate >= t
              THEN [event |-> event, error |-> None,
                    fetched |-> TRUE, lookup |-> event]
              ELSE [event |-> NoEvent,
                    error |-> "Could not find a future Grand Prix matching '"
                              \o gp_name_query \o "'.",
                    fetched |-> TRUE, lookup |-> event] :
              event \in EventByName(sched) }
       ELSE { [event |-> future[1], error |-> None,
               fetched |-> TRUE, lookup |-> NoEvent] } )

\* The filter of lines 91-94 without the test of the name.
completed_races_AnyName(sched, t) ==
  SelectSeq(sched, LAMBDA e : e.EventDate < t)

\* schedule[EventName.str.contains("Grand Prix") & (EventDate < now)]
completed_races(sched, t) ==
  SelectSeq(sched, LAMBDA e : /\ Contains(Chars(e.EventName), Chars("Grand Prix"))
                              /\ e.EventDate < t)

Roster == <<"VER", "NOR", "LEC", "HAM", "RUS", "PIA">>

ResultsRow(position, abbreviation) ==
  [Position |-> position, TeamName |-> "Scuderia",
   GivenName |-> None, FamilyName |-> None, Driver |-> None,
   Abbreviation |-> abbreviation]

\* session.results of the race of a round, once loaded: the provider's
\* classification (a numeric Position column, missing for a driver who was
\* not classified), different for every round; or an empty table when the
\* provider has no results for the race yet.
ResultsOf(round) ==
  [kind |-> "df", cols |-> {"Abbreviation"},
   rows |-> << ResultsRow(Num(round), Roster[1]),
               ResultsRow(Num(round + 4), Roster[2]),
               ResultsRow(Num(round + 8), Roster[3]),
               ResultsRow(Missing, Roster[4]) >>]

EmptyResults == [kind |-> "df", cols |-> {"Abbreviation"}, rows |-> <<>>]

SessionResults(round) == { ResultsOf(round), EmptyResults }

\* Every outcome of get_driver_standings() at time t: the pair
\* (results, error) it returns, with what the library did (fetched: the
\* schedule arrived; round: the round whose session was asked for, 0 if
\* none; loaded: session.load succeeded).
get_driver_standings(sched, t) ==
  LET completed == completed_races(sched, t)
      last_race == completed[Len(completed)]
      failure(fetched, round) ==
        [results |-> NoDataFrame,
         error |-> "Could not fetch driver standings using fastf1: " \o ExcText,
         fetched |-> fetched, round |-> round, loaded |-> FALSE]
  IN {failure(FALSE, 0)} \cup
     ( IF Len(completed) = 0
       THEN { [results |-> NoDataFrame,
               error |-> "The season has not started yet. No standings available.",
               fetched |-> TRUE, round |-> 0, loaded |-> FALSE] }
       ELSE {failure(TRUE, last_race.RoundNumber)} \cup
            { [results |-> r, error |-> None, fetched |-> TRUE,
               round |-> last_race.RoundNumber, loaded |-> TRUE] :
              r \in SessionResults(last_race.RoundNumber) } )

----------------------------------------------------------------------------
(* cli.print_welcome, cli.print_prediction, cli.main *)

Printed(what, text) == [what |-> what, text |-> text]

\* console.print(f"[bold red]Error:[/bold red] {error}")
PrintError(msg) == Printed("error", msg)

DriverLine(label, driver) ==
  Printed("row", label \o " " \o Str(driver.name) \o " (" \o driver.constructor \o ")")

RECURSIVE PodiumRows(_, _)
PodiumRows(favorites, i) ==
  IF i > Len(favorites) THEN <<>>
  ELSE <<DriverLine("P", favorites[i])>> \o PodiumRows(favorites, i + 1)

\* What print_prediction(prediction) prints.
print_prediction(p) ==
  IF "error" \in DOMAIN p /\ Truthy(p.error)
  THEN << PrintError(p.error) >>
  ELSE << Printed("panel", "Prediction for the " \o p.event_name) >>
       \o PodiumRows(p.podium_favorites, 1)
       \o (IF p.dark_horse # NoDriver
           THEN <<DriverLine("-> Dark Horse", p.dark_horse)>> ELSE <<>>)
       \o (IF p.potential_surprise # NoDriver
           THEN <<DriverLine("-> Potential Surprise", p.potential_surprise)>>
           ELSE <<>>)
       \o << Printed("disclaimer", "for entertainment purposes only") >>

\* `if error: ...; return` ignored: main goes on after a failed lookup.
AfterLookup_NoReturn(err, next) == next

\* Where main goes after a lookup: `if error: print; return`.
AfterLookup(err, next) == IF Truthy(err) THEN "exit" ELSE next

----------------------------------------------------------------------------
(* Inputs. *)

\* Positions around the edges of the three pools (<= 5, 4..8, 9..15).
PositionValues == {3, 4, 5, 6, 8, 9, 15, 16}

PositionCells ==
  {Missing, Unparseable} \cup { Num(n) : n \in PositionValues }

NameCols == {"GivenName", "FamilyName", "Driver", "Abbreviation"}

\* Tables of up to MaxRows rows with every combination of positions.
PoolTables ==
  { [kind |-> "df", cols |-> {"Abbreviation"},
     rows |-> [i \in 1..Len(cells) |-> ResultsRow(cells[i], Roster[i])]] :
    cells \in UNION { [1..m -> PositionCells] : m \in 0..MaxRows } }

\* One-row tables with every choice of name columns, each present field
\* either filled in or missing.
NameTables ==
  { [kind |-> "df", cols |-> cols,
     rows |-> << [Position |-> Num(1), TeamName |-> "Scuderia",
                  GivenName |-> IF "GivenName" \in cols THEN v.g ELSE None,
                  FamilyName |-> IF "FamilyName" \in cols THEN v.f ELSE None,
                  Driver |-> IF "Driver" \in cols THEN v.d ELSE None,
                  Abbreviation |-> IF "Abbreviation" \in cols THEN v.a
                                                              ELSE None] >>] :
    cols \in SUBSET NameCols,
    v \in [g : {"Max", NaN}, f : {"Verstappen", NaN},
           d : {"max_verstappen", NaN}, a : {"VER", NaN}] }

EventNames ==
  {"Monaco Grand Prix", "MONACO GRAND PRIX", "Obscuretown Grand Prix",
   "Monaco-Miami Grand Prix", "SÃO PAULO GRAND PRIX", "Italian Grand Prix", ""}

\* Event descriptors: None, a dict, or an object; a field that is absent
\* reads as None.
EventInfos ==
  {NoEvent} \cup
  { [kind |-> k, EventName |-> n, Location |-> l,
     EventDate |-> 1, RoundNumber |-> 1] :
    k \in {"dict", "obj"}, n \in EventNames \cup {None},
    l \in {"Monte Carlo", "", None} }

GenInputs ==
  ((PoolTables \cup NameTables) \X {NoEvent})
  \cup ({NoDataFrame, EmptyResults, ResultsOf(1)} \X EventInfos)

ScheduleNames == {"Monaco Grand Prix", "Miami Grand Prix", "Indianapolis 500"}

LocationOf(name) ==
  CASE name = "Monaco Grand Prix" -> "Monaco"
    [] name = "Miami Grand Prix" -> "Miami"
    [] OTHER -> "Indianapolis"

\* Schedules as the provider gives them: one row per round, in round
\* order, which is the order of the dates.
Schedules ==
  { [i \in 1..Len(s) |->
       [kind |-> "obj", EventName |-> s[i][1], Location |-> LocationOf(s[i][1]),
        EventDate |-> s[i][2], RoundNumber |-> i]] :
    s \in { q \in UNION { [1..m -> ScheduleNames \X (1..MaxDate)] :
                          m \in 0..MaxEvents } :
            \A i \in 1..(Len(q) - 1) : q[i][2] <= q[i + 1][2] } }

Queries == {None, "", "monaco"}

NoOutcome == [raised |-> None, value |-> [pending |-> TRUE]]

NoExt ==
  [gp_fetched |-> FALSE, lookup |-> NoEvent,
   st_fetched |-> FALSE, round |-> 0, loaded |-> FALSE]

----------------------------------------------------------------------------
(* generate_prediction called on its own. *)

InitGen ==
  /\ pc = "call"
  /\ \E in \in GenInputs : standings = in[1] /\ event_info = in[2]
  /\ gp_name = None
  /\ schedule = <<>>
  /\ now = 0
  /\ error = None
  /\ prediction = NoOutcome
  /\ console = <<>>
  /\ calls = <<>>
  /\ ext = NoExt

CallGeneratePrediction ==
  /\ pc = "call"
  /\ \E o \in generate_prediction(standings, event_info) : prediction' = o
  /\ pc' = "done"
  /\ calls' = Append(calls, "generate_prediction")
  /\ UNCHANGED <<gp_name, schedule, now, event_info, standings, error,
                 console, ext>>

NextGen == CallGeneratePrediction

SpecGen == InitGen /\ [][NextGen]_vars

----------------------------------------------------------------------------
(* cli.main *)

Init ==
  /\ pc = "main"
  /\ gp_name \in Queries
  /\ schedule \in Schedules
  /\ now \in 0..(MaxDate + 1)
  /\ event_info = NoEvent
  /\ standings = NoDataFrame
  /\ error = None
  /\ prediction = NoOutcome
  /\ console = <<>>
  /\ calls = <<>>
  /\ ext = NoExt

\* Lines 83-87: the welcome panel when no GP name was given.
MainStart ==
  /\ pc = "main"
  /\ console' = IF ~Truthy(gp_name)
                THEN console \o << Printed("welcome", "Welcome to the F1 Grand Prix Predictor!"),
                                   Printed("status", "Getting the next race on the calendar...") >>
                ELSE console
  /\ pc' = "get_next_gp"
  /\ UNCHANGED <<gp_name, schedule, now, event_info, standings, error,
                 prediction, calls, ext>>

\* Lines 90-94
MainGetNextGp ==
  /\ pc = "get_next_gp"
  /\ \E o \in get_next_gp(gp_name, schedule, now) :
       /\ event_info' = o.event
       /\ error' = o.error
       /\ ext' = [ext EXCEPT !.gp_fetched = o.fetched, !.lookup = o.lookup]
       /\ console' = IF Truthy(o.error) THEN Append(console, PrintError(o.error))
                                        ELSE console
       /\ pc' = AfterLookup(o.error, "get_driver_standings")
  /\ calls' = Append(calls, "get_next_gp")
  /\ UNCHANGED <<gp_name, schedule, now, standings, prediction>>

\* Lines 96-100
MainGetDriverStandings ==
  /\ pc = "get_driver_standings"
  /\ \E o \in get_driver_standings(schedule, now) :
       /\ standings' = o.results
       /\ error' = o.error
       /\ ext' = [ext EXCEPT !.st_fetched = o.fetched, !.round = o.round,
                             !.loaded = o.loaded]
       /\ console' = IF Truthy(o.error) THEN Append(console, PrintError(o.error))
                                        ELSE console
       /\ pc' = AfterLookup(o.error, "generate_prediction")
  /\ calls' = Append(calls, "get_driver_standings")
  /\ UNCHANGED <<gp_name, schedule, now, event_info, prediction>>

\* Lines 102-103; an exception raised by generate_prediction leaves main.
MainGeneratePrediction ==
  /\ pc = "generate_prediction"
  /\ \E o \in generate_prediction(standings, event_info) :
       /\ prediction' = o
       /\ pc' = IF o.raised # None THEN "crashed" ELSE "print_prediction"
  /\ calls' = Append(calls, "generate_prediction")
  /\ UNCHANGED <<gp_name, schedule, now, event_info, standings, error,
                 console, ext>>

\* Line 105
MainPrintPrediction ==
  /\ pc = "print_prediction"
  /\ console' = console \o print_prediction(prediction.value)
  /\ pc' = "exit"
  /\ calls' = Append(calls, "print_prediction")
  /\ UNCHANGED <<gp_name, schedule, now, event_info, standings, error,
                 prediction, ext>>

Next ==
  \/ MainStart
  \/ MainGetNextGp
  \/ MainGetDriverStandings
  \/ MainGeneratePrediction
  \/ MainPrintPrediction

Spec == Init /\ [][Next]_vars

----------------------------------------------------------------------------
(* Properties of generate_prediction, checked under SpecGen.  They are     *)
(* stated on the arguments of the call (standings, event_info) and on its  *)
(* outcome (prediction), once the call has been made (pc = "done").        *)

GenReturned == pc = "done" /\ prediction.raised = None

HasRows(df) == df.kind = "df" /\ Len(df.rows) > 0

IsPrediction(v) == "podium_favorites" \in DOMAIN v

\* The rows of a table with a numeric position between lo and hi.
RowsWithin(df, lo, hi) ==
  { i \in 1..Len(df.rows) :
      /\ df.rows[i].Position.kind = "num"
      /\ lo <= df.rows[i].Position.val
      /\ df.rows[i].Position.val <= hi }

\* The rows of a table with a numeric position of at most hi.
RowsUpTo(df, hi) ==
  { i \in 1..Len(df.rows) :
      df.rows[i].Position.kind = "num" /\ df.rows[i].Position.val <= hi }

\* A driver dict agrees with the row it names.
FromRow(df, d) ==
  /\ d.row \in 1..Len(df.rows)
  /\ df.rows[d.row].Position.kind = "num"
  /\ d.position = df.rows[d.row].Position.val
  /\ d.constructor = df.rows[d.row].TeamName

\* C1: for a non-empty results table, podium_favorites has exactly
\* min(3, N) entries, N being the number of rows with a present position
\* <= 5; no row is chosen twice and every entry has position <= 5; the
\* sampling never fails, whatever N is.  (A table with a position that
\* int() rejects ends the call before the sampling and returns nothing.)
C1_PodiumFavorites ==
  (pc = "done" /\ HasRows(standings)) =>
    LET N == Cardinality(RowsUpTo(standings, 5))
    IN /\ prediction.raised # None =>
            prediction.value.at # "random.sample"
       /\ (\A i \in 1..Len(standings.rows) :
              standings.rows[i].Position.kind # "str")
            => prediction.raised = None
       /\ prediction.raised = None =>
            /\ IsPrediction(prediction.value)
            /\ LET pf == prediction.value.podium_favorites
               IN /\ Len(pf) = (IF N >= 3 THEN 3 ELSE N)
                  /\ \A a, b \in 1..Len(pf) : a # b => pf[a].row # pf[b].row
                  /\ \A a \in 1..Len(pf) :
                       /\ FromRow(standings, pf[a])
                       /\ pf[a].position <= 5

\* Three favourites were drawn out of four top contenders.
C1_Witness ==
  /\ GenReturned
  /\ IsPrediction(prediction.value)
  /\ Cardinality(RowsUpTo(standings, 5)) = 4
  /\ Len(prediction.value.podium_favorites) = 3

\* C2: in every prediction returned, dark_horse is None exactly when no
\* candidate has a position in 4..8 and is otherwise one of the candidates
\* with a position in 4..8; potential_surprise likewise with 9..15.
C2_DarkHorseAndSurprise ==
  (GenReturned /\ IsPrediction(prediction.value)) =>
    LET dh == prediction.value.dark_horse
        ps == prediction.value.potential_surprise
    IN /\ (dh = NoDriver) <=> (RowsWithin(standings, 4, 8) = {})
       /\ dh # NoDriver =>
            /\ FromRow(standings, dh)
            /\ dh.row \in RowsWithin(standings, 4, 8)
            /\ 4 <= dh.position /\ dh.position <= 8
       /\ (ps = NoDriver) <=> (RowsWithin(standings, 9, 15) = {})
       /\ ps # NoDriver =>
            /\ FromRow(standings, ps)
            /\ ps.row \in RowsWithin(standings, 9, 15)
            /\ 9 <= ps.position /\ ps.position <= 15

\* Both picks were made at the edges of their pools, with rows just
\* outside of both pools in the table.
C2_Witness ==
  /\ GenReturned
  /\ IsPrediction(prediction.value)
  /\ prediction.value.dark_horse.position = 4
  /\ prediction.value.potential_surprise.position = 15
  /\ \E i, j \in 1..Len(standings.rows) :
       /\ standings.rows[i].Position = Num(3)
       /\ standings.rows[j].Position = Num(16)

\* C3: when the standings are None or an empty table, the outcome is
\* exactly the record {error: "Cannot generate prediction without driver
\* standings."}, whatever the event descriptor, and nothing is raised.
C3_NoStandings ==
  (pc = "done" /\ ~HasRows(standings)) =>
    /\ prediction.raised = None
    /\ DOMAIN prediction.value = {"error"}
    /\ prediction.value.error
         = "Cannot generate prediction without driver standings."

\* The call was made with an empty table and a named event.
C3_Witness ==
  /\ pc = "done"
  /\ standings.kind = "df" /\ Len(standings.rows) = 0
  /\ event_info.kind = "dict" /\ event_info.EventName = "Monaco Grand Prix"
  /\ DOMAIN prediction.value = {"error"}

\* C4: when the table has rows but every row is skipped because its
\* position is missing, the result is an error-tagged record.
C4_InsufficientData ==
  ( /\ pc = "done"
    /\ HasRows(standings)
    /\ \A i \in 1..Len(standings.rows) : IsNa(standings.rows[i].Position) )
  => (prediction.raised = None /\ "error" \in DOMAIN prediction.value)

\* The keys of the table that occur in the event name, case ignored.
MatchingKeys(event_name) ==
  { i \in 1..Len(CIRCUIT_TIDBITS) :
      Contains(Lower(Chars(event_name)), Lower(Chars(CIRCUIT_TIDBITS[i].key))) }

\* C5: the tidbit is the entry of the first key, in table order, that
\* occurs in the event name as a case-insensitive substring; it is the
\* generic default when no key does or the event or its name is absent.
\* "Monaco Grand Prix" gives the Monaco entry, "Obscuretown Grand Prix" the
\* default.
C5_Tidbit ==
  (GenReturned /\ IsPrediction(prediction.value)) =>
    LET name == event_info.EventName
        tidbit == prediction.value.tidbit
    IN /\ IF event_info.kind = "none" \/ name = None \/ name = ""
          THEN tidbit = "A circuit that always brings excitement!"
          ELSE IF MatchingKeys(name) = {}
               THEN tidbit = "A circuit that always brings excitement!"
               ELSE \E i \in MatchingKeys(name) :
                      /\ \A j \in MatchingKeys(name) : i <= j
                      /\ tidbit = CIRCUIT_TIDBITS[i].text
       /\ (event_info.kind # "none" /\ name = "Monaco Grand Prix") =>
            tidbit = "The crown jewel. Overtaking is nearly impossible, so qualifying is everything."
       /\ (event_info.kind # "none" /\ name = "Obscuretown Grand Prix") =>
            tidbit = "A circuit that always brings excitement!"

\* An upper-case event name naming two circuits got the entry of the one
\* that comes first in the table.
C5_Witness ==
  /\ GenReturned
  /\ IsPrediction(prediction.value)
  /\ event_info.kind = "obj"
  /\ event_info.EventName = "MONACO GRAND PRIX"
  /\ prediction.value.tidbit = CIRCUIT_TIDBITS[6].text

\* A field of a row is populated: its column exists and its value is not
\* missing.
Populated(df, i, field) ==
  field \in df.cols /\ df.rows[i][field] \notin {NaN, None}

\* The name C6 gives the i-th row.
ClaimedName(df, i) ==
  IF Populated(df, i, "GivenName") /\ Populated(df, i, "FamilyName")
  THEN df.rows[i].GivenName \o " " \o df.rows[i].FamilyName
  ELSE IF Populated(df, i, "Driver")
       THEN df.rows[i].Driver
       ELSE IF Populated(df, i, "Abbreviation")
            THEN df.rows[i].Abbreviation
            ELSE "Unknown"

\* C6: the name of every kept row is "<given> <family>" when both fields
\* are populated, otherwise the driver identifier, otherwise the
\* abbreviation, otherwise "Unknown"; a row whose given or family name is
\* not populated falls through to the next available field.
C6_DriverName ==
  (GenReturned /\ IsPrediction(prediction.value)) =>
    \A a \in 1..Len(prediction.value.podium_favorites) :
      LET d == prediction.value.podium_favorites[a]
      IN d.name = ClaimedName(standings, d.row)

\* C10: every row whose position is missing or cannot be converted to an
\* integer is skipped and every other row gives one candidate; the call
\* returns a prediction record and raises nothing, for any such table.
C10_UnparseableSkipped ==
  (pc = "done" /\ HasRows(standings)) =>
    /\ prediction.raised = None
    /\ IsPrediction(prediction.value)
    /\ \A a \in 1..Len(prediction.value.podium_favorites) :
         FromRow(standings, prediction.value.podium_favorites[a])

----------------------------------------------------------------------------
(* Properties of the lookups and of cli.main, checked under Spec.          *)

\* The events of the schedule that have not taken place yet.
FutureRounds == { i \in 1..Len(schedule) : schedule[i].EventDate >= now }

\* The Grands Prix of the schedule that have taken place.
CompletedGrandsPrix ==
  { i \in 1..Len(schedule) :
      /\ Contains(Chars(schedule[i].EventName), Chars("Grand Prix"))
      /\ schedule[i].EventDate < now }

\* get_next_gp has returned and nothing else was called since.
AfterGetNextGp == calls = <<"get_next_gp">>

\* C7: without a query get_next_gp returns the event with the earliest
\* date among those with a date >= now; with a query it returns the event
\* the lookup by name gave, only if its date is >= now; otherwise it
\* returns no event and one of three distinct messages; exactly one of
\* (event, error) is set.
C7_GetNextGp ==
  AfterGetNextGp =>
    /\ (event_info.kind = "none") # (error = None)
    /\ ~ext.gp_fetched =>
         /\ event_info = NoEvent
         /\ error = "Network error getting race schedule: connection failed"
    /\ (ext.gp_fetched /\ FutureRounds = {}) =>
         /\ event_info = NoEvent
         /\ error = "No upcoming races found for the rest of the season."
    /\ (ext.gp_fetched /\ FutureRounds # {} /\ gp_name \in {None, ""}) =>
         /\ error = None
         /\ event_info.RoundNumber \in FutureRounds
         /\ event_info = schedule[event_info.RoundNumber]
         /\ \A j \in FutureRounds :
              event_info.EventDate <= schedule[j].EventDate
    /\ (ext.gp_fetched /\ FutureRounds # {} /\ gp_name \notin {None, ""}) =>
         IF ext.lookup.kind # "none" /\ ext.lookup.EventDate >= now
         THEN event_info = ext.lookup /\ error = None
         ELSE /\ event_info = NoEvent
              /\ error = "Could not find a future Grand Prix matching 'monaco'."

\* Without a query, the event of today was returned, after a past one.
C7_Witness ==
  /\ AfterGetNextGp
  /\ gp_name = None
  /\ error = None
  /\ event_info.RoundNumber = 2
  /\ event_info.EventDate = now
  /\ Len(schedule) = 3

\* get_driver_standings has returned and nothing else was called since.
AfterGetDriverStandings == calls = <<"get_next_gp", "get_driver_standings">>

\* C8: get_driver_standings returns the results of the Grand Prix with
\* the latest date strictly before now; with no such event, no table and
\* the "season has not started" message; when fetching or loading fails,
\* no table and an error message; an event whose name does not contain
\* "Grand Prix" is never selected.
C8_GetDriverStandings ==
  AfterGetDriverStandings =>
    /\ (standings.kind = "none") # (error = None)
    /\ ~ext.st_fetched =>
         /\ standings = NoDataFrame
         /\ error = "Could not fetch driver standings using fastf1: connection failed"
    /\ (ext.st_fetched /\ CompletedGrandsPrix = {}) =>
         /\ standings = NoDataFrame
         /\ error = "The season has not started yet. No standings available."
    /\ (ext.st_fetched /\ CompletedGrandsPrix # {}) =>
         /\ ext.round \in CompletedGrandsPrix
         /\ \A j \in CompletedGrandsPrix :
              schedule[j].EventDate <= schedule[ext.round].EventDate
         /\ IF ext.loaded
            THEN standings \in SessionResults(ext.round) /\ error = None
            ELSE /\ standings = NoDataFrame
                 /\ error = "Could not fetch driver standings using fastf1: connection failed"

\* The results of round 1 were returned although round 2, which is no
\* Grand Prix, has taken place too.
C8_Witness ==
  /\ AfterGetDriverStandings
  /\ error = None
  /\ standings = ResultsOf(1)
  /\ Len(schedule) = 3
  /\ schedule[2].EventDate < now
  /\ schedule[2].EventName = "Indianapolis 500"

FlowOrder ==
  <<"get_next_gp", "get_driver_standings", "generate_prediction",
    "print_prediction">>

\* How many of the printed items are of the kinds in whats.
RECURSIVE Shown(_, _)
Shown(items, whats) ==
  IF Len(items) = 0 THEN 0
  ELSE (IF Head(items).what \in whats THEN 1 ELSE 0) + Shown(Tail(items), whats)

\* C9: main calls get_next_gp, get_driver_standings, generate_prediction
\* and print_prediction in this order; once get_next_gp has reported an
\* error the message is printed and none of the other three is invoked;
\* once get_driver_standings has, the message is printed and neither
\* generate_prediction nor print_prediction is invoked; a finished run has
\* shown exactly one of a lookup error and the prediction (or the engine's
\* error), and no run ends in an exception.
C9_MainFlow ==
  /\ Len(calls) <= Len(FlowOrder)
  /\ calls = SubSeq(FlowOrder, 1, Len(calls))
  /\ pc # "crashed"
  /\ pc # "exit" =>
       /\ Shown(console, {"error", "panel"}) = 0
       /\ Len(calls) < Len(FlowOrder)
       /\ pc = "main" \/ pc = FlowOrder[Len(calls) + 1]
       /\ pc = "main" => calls = <<>>
  /\ pc = "exit" => Shown(console, {"error", "panel"}) = 1
  /\ (Len(calls) >= 1 /\ event_info.kind = "none") =>
       /\ calls = <<"get_next_gp">>
       /\ pc = "exit"
       /\ console[Len(console)] = PrintError(error)
  /\ (Len(calls) >= 2 /\ standings.kind = "none") =>
       /\ calls = <<"get_next_gp", "get_driver_standings">>
       /\ pc = "exit"
       /\ console[Len(console)] = PrintError(error)
  /\ (Len(calls) = 4) =>
       /\ pc = "exit"
       /\ error = None
       /\ Shown(console, {"panel"}) = 1 <=> IsPrediction(prediction.value)

\* A run that ended after get_driver_standings had reported an error.
C9_Witness ==
  /\ pc = "exit"
  /\ calls = <<"get_next_gp", "get_driver_standings">>
  /\ error = "The season has not started yet. No standings available."
  /\ console[Len(console)].what = "error"

====
